---------------------------- MODULE Spec2Model ----------------------------
(***************************************************************************)
(* GenericAdmissionWebhook (plugin/pkg/admission/webhook/admission.go).    *)
(*                                                                         *)
(* One Admit invocation: List the hooks, start one goroutine per hook,     *)
(* each goroutine runs callHook and either returns, reports a call failure *)
(* to utilruntime.HandleError, or sends a rejection down errCh; Admit      *)
(* waits on the WaitGroup, closes and drains errCh and returns errs[0].    *)
(*                                                                         *)
(* Goroutine-local computation (rule matching, endpoint resolution, client *)
(* construction, decoding the response) is folded into the step that ends  *)
(* with the goroutine's next shared operation (issuing the POST, the send  *)
(* on errCh / HandleError, wg.Done).                                       *)
(***************************************************************************)
EXTENDS Naturals, Sequences, FiniteSets, Bags, TLC

\* Number of ExternalAdmissionHooks the hook source can hold.
MaxHooks == 3

\* rest.Config.Timeout, in seconds.
Timeout == 30

Wildcard == "*"

(***************************************************************************)
(* Errors.  Go error values are records tagged with their dynamic type.    *)
(***************************************************************************)
NilErr == [type |-> "nil"]

\* Variant: WebhookName is left unset.
ErrCallingWebhookUntagged(name, reason) ==
    [type |-> "ErrCallingWebhook", WebhookName |-> 0, Reason |-> reason]

ErrCallingWebhook(name, reason) ==
    [type |-> "ErrCallingWebhook", WebhookName |-> name, Reason |-> reason]

StatusError(result) == [type |-> "StatusError", ErrStatus |-> result]

\* fmt.Errorf("admission webhook %q denied the request without explanation", h.Name)
ErrDeniedWithoutExplanation(name) ==
    [type |-> "errorString",
     text |-> "admission webhook %q denied the request without explanation",
     name |-> name]

\* fmt.Errorf("failed listing hooks: %v", err)
ErrFailedListing(err) ==
    [type |-> "errorString", text |-> "failed listing hooks: %v", err |-> err]

\* The error the hook source's List may return.
ListError == [type |-> "listError", text |-> "hook source unavailable"]

(***************************************************************************)
(* Rules and request attributes.                                           *)
(***************************************************************************)
Requests ==
    { [Group |-> g, Version |-> "v1", Resource |-> r, Operation |-> o] :
        <<g, r>> \in {<<"apps", "deployments">>, <<"", "pods">>},
        o \in {"CREATE", "DELETE"} }

DimAdmits(dim, v) == Wildcard \in dim \/ v \in dim

\* RuleMatcher.Matches
Matches(rule, a) ==
    /\ DimAdmits(rule.Operations, a.Operation)
    /\ DimAdmits(rule.APIGroups, a.Group)
    /\ DimAdmits(rule.APIVersions, a.Version)
    /\ DimAdmits(rule.Resources, a.Resource)

RuleAll ==
    [Operations |-> {Wildcard}, APIGroups |-> {Wildcard},
     APIVersions |-> {Wildcard}, Resources |-> {Wildcard}]

RuleEmptyOperations == [RuleAll EXCEPT !.Operations = {}]

RuleGroupApps == [RuleAll EXCEPT !.APIGroups = {"apps"}]

RuleCreateUpdate ==
    [Operations |-> {"CREATE", "UPDATE"}, APIGroups |-> {"", "apps"},
     APIVersions |-> {"v1"}, Resources |-> {"pods", "deployments"}]

\* The Rules of the registration named n.
RulesOf(n) ==
    CASE n % 3 = 1 -> <<RuleAll>>
      [] n % 3 = 2 -> <<RuleEmptyOperations, RuleGroupApps>>
      [] OTHER     -> <<RuleCreateUpdate>>

\* admissionregistration.ExternalAdmissionHook
Hook(n) == [Name |-> n, Rules |-> RulesOf(n)]

RECURSIVE Increasing(_)
Increasing(s) ==
    IF Len(s) <= 1 THEN TRUE
    ELSE s[1] < s[2] /\ Increasing(Tail(s))

\* What hookSource.List() may hold: registrations with unique names.
HookLists ==
    LET names == UNION { [1..k -> 1..MaxHooks] : k \in 0..MaxHooks }
    IN  { [i \in 1..Len(s) |-> Hook(s[i])] : s \in { t \in names : Increasing(t) } }

\* The loop of callHook over h.Rules, from rule k on.
RECURSIVE RuleLoop(_, _, _)
RuleLoop(rules, a, k) ==
    IF k > Len(rules) THEN FALSE
    ELSE IF Matches(rules[k], a) THEN TRUE
    ELSE RuleLoop(rules, a, k + 1)

\* Variant: only the first rule is looked at.
FirstRuleMatches(h, a) == Len(h.Rules) >= 1 /\ Matches(h.Rules[1], a)

AnyRuleMatches(h, a) == RuleLoop(h.Rules, a, 1)

(***************************************************************************)
(* The admission review a webhook answers with.                            *)
(***************************************************************************)
NoResult == [isNil |-> TRUE]

\* No response was decoded into request.
NoResponse == [received |-> FALSE]

\* The metav1.Status webhook n explains its denials with.
ResultOf(n) == [isNil |-> FALSE, Status |-> "Failure", Message |-> <<"denied by", n>>]

Responses(h) ==
    { [received |-> TRUE, Allowed |-> TRUE,  Result |-> NoResult],
      [received |-> TRUE, Allowed |-> FALSE, Result |-> ResultOf(h.Name)],
      [received |-> TRUE, Allowed |-> FALSE, Result |-> NoResult] }

\* Variant: the Result is not passed on.
DecodeStatusDropsResult(h, request) ==
    IF request.Allowed THEN NilErr
    ELSE ErrDeniedWithoutExplanation(h.Name)

\* Variant: a response without a Result counts as no objection.
DecodeStatusNilResultAllows(h, request) ==
    IF request.Allowed \/ request.Result.isNil THEN NilErr
    ELSE StatusError(request.Result)

\* callHook after a response was decoded into request.
DecodeStatus(h, request) ==
    IF request.Allowed THEN NilErr
    ELSE IF request.Result.isNil THEN ErrDeniedWithoutExplanation(h.Name)
    ELSE StatusError(request.Result)

\* Variant: every error is only reported.
ClassifyFailOpenAll(err) ==
    IF err = NilErr THEN "return" ELSE "HandleError"

\* Variant: every error is sent down the channel.
ClassifySendAll(err) ==
    IF err = NilErr THEN "return" ELSE "send"

\* The branches of the goroutine body on callHook's error.
Classify(err) ==
    IF err = NilErr THEN "return"
    ELSE IF err.type = "ErrCallingWebhook" THEN "HandleError"
    ELSE "send"

\* Variant: a context derived from the caller's, which the caller can cancel.
ContextWithCancel == [cancelable |-> TRUE, done |-> FALSE]

\* ctx := context.TODO(): an empty context, never cancelled, with no cancel
\* function; Admit takes no context from its caller.
ContextTODO == [cancelable |-> FALSE, done |-> FALSE]

\* What Do() returns with when the request fails: with ctx done the call is
\* abandoned at once, otherwise it fails in transport or after Timeout.
DoErrors(c) ==
    IF c.done THEN {"context canceled"}
    ELSE {"transport", "timeout", "malformed response"}

VARIABLES
    attr,          \* admission.Attributes of the request
    hookSource,    \* what a.hookSource.List() returns
    pc,            \* where Admit is
    hooks,         \* the slice List returned
    ctx,           \* the context handed to every call
    callerAborted, \* the enclosing request was aborted by its caller
    nextHook,      \* the loop variable i of the fan-out loop (1-based)
    wg,            \* sync.WaitGroup counter
    errCh,         \* [buf, cap, closed]: the buffered channel
    task,          \* the goroutine of each hook: [pc, err, calls]
    listErr,       \* the err List returned
    arrival,       \* history: the hooks whose errors were sent on errCh, in order
    errs,          \* the slice Admit drains errCh into
    handled,       \* bag of errors given to utilruntime.HandleError
    ret,           \* what Admit returned
    inv,           \* concurrent invocations: the locals of each Admit call
    frames,        \* concurrent invocations: errCh and wg of each Admit call
    reported       \* concurrent invocations: bag given to utilruntime.HandleError

vars == <<attr, hookSource, pc, hooks, ctx, callerAborted, nextHook, wg,
          errCh, task, listErr, arrival, errs, handled, ret, inv, frames, reported>>

Idx == 1..Len(hooks)

Init ==
    /\ attr \in Requests
    /\ hookSource \in HookLists
    /\ pc = "idle"
    /\ hooks = <<>>
    /\ ctx = ContextTODO
    /\ callerAborted = FALSE
    /\ nextHook = 1
    /\ wg = 0
    /\ errCh = [buf |-> <<>>, cap |-> 0, closed |-> FALSE]
    /\ task = <<>>
    /\ listErr = NilErr
    /\ arrival = <<>>
    /\ errs = <<>>
    /\ handled = EmptyBag
    /\ ret = NilErr
    /\ inv = <<>>
    /\ frames = <<>>
    /\ reported = EmptyBag

(***************************************************************************)
(* Admit                                                                   *)
(***************************************************************************)
\* What a.hookSource.List() may return.
ListResults ==
    { [hooks |-> hookSource, err |-> NilErr],
      [hooks |-> <<>>, err |-> ListError] }

\* Variant: the error of List is not looked at.
ListFailedIgnored(err) == FALSE

\* if err != nil
ListFailed(err) == err # NilErr

\* Variant: errCh := make(chan error), without a buffer.
ErrChUnbuffered(hs) == 0

\* errCh := make(chan error, len(hooks))
ErrChCapacity(hs) == Len(hs)

NewTask == [pc |-> "unspawned", err |-> NilErr, calls |-> {}, response |-> NoResponse]

\* hooks, err := a.hookSource.List() ... wg.Add(len(hooks))
AdmitList ==
    /\ pc = "idle"
    /\ \E res \in ListResults :
         /\ listErr' = res.err
         /\ IF ListFailed(res.err)
            THEN /\ pc' = "done"
                 /\ ret' = ErrFailedListing(res.err)
                 /\ UNCHANGED <<hooks, errCh, wg, task, nextHook>>
            ELSE /\ hooks' = res.hooks
                 /\ errCh' = [buf |-> <<>>, cap |-> ErrChCapacity(res.hooks), closed |-> FALSE]
                 /\ wg' = Len(res.hooks)
                 /\ task' = [i \in 1..Len(res.hooks) |-> NewTask]
                 /\ nextHook' = 1
                 /\ pc' = "spawn"
                 /\ ret' = ret
    /\ UNCHANGED <<inv, frames, reported, attr, hookSource, ctx, callerAborted, arrival, errs, handled>>

\* Variant: the body is called without go, so the loop goes on only when
\* the call of the previous hook is over.
AdmitSpawnSequential ==
    /\ pc = "spawn"
    /\ IF nextHook = 1 THEN TRUE ELSE task[nextHook - 1].pc = "done"
    /\ IF nextHook <= Len(hooks)
       THEN /\ task' = [task EXCEPT ![nextHook].pc = "ready"]
            /\ nextHook' = nextHook + 1
            /\ pc' = pc
       ELSE /\ pc' = "wait"
            /\ UNCHANGED <<task, nextHook>>
    /\ UNCHANGED <<inv, frames, reported, attr, hookSource, hooks, ctx, callerAborted, wg, errCh,
                   listErr, arrival, errs, handled, ret>>

\* for i := range hooks { go func(hook)(&hooks[i]) }
AdmitSpawn ==
    /\ pc = "spawn"
    /\ IF nextHook <= Len(hooks)
       THEN /\ task' = [task EXCEPT ![nextHook].pc = "ready"]
            /\ nextHook' = nextHook + 1
            /\ pc' = pc
       ELSE /\ pc' = "wait"
            /\ UNCHANGED <<task, nextHook>>
    /\ UNCHANGED <<inv, frames, reported, attr, hookSource, hooks, ctx, callerAborted, wg, errCh,
                   listErr, arrival, errs, handled, ret>>

\* Variant: Admit does not wait.
WaitReturnsAlways(counter) == TRUE

\* Variant: the WaitGroup counts one goroutine too few.
WaitReturnsEarly(counter) == counter <= 1

\* wg.Wait() returns
WaitReturns(counter) == counter = 0

AdmitWait ==
    /\ pc = "wait"
    /\ WaitReturns(wg)
    /\ pc' = "close"
    /\ UNCHANGED <<inv, frames, reported, attr, hookSource, hooks, ctx, callerAborted, nextHook, wg,
                   errCh, task, listErr, arrival, errs, handled, ret>>

\* close(errCh)
AdmitClose ==
    /\ pc = "close"
    /\ errCh' = [errCh EXCEPT !.closed = TRUE]
    /\ pc' = "drain"
    /\ UNCHANGED <<inv, frames, reported, attr, hookSource, hooks, ctx, callerAborted, nextHook, wg,
                   task, listErr, arrival, errs, handled, ret>>

\* for e := range errCh { errs = append(errs, e) }
AdmitDrain ==
    /\ pc = "drain"
    /\ IF errCh.buf # <<>>
       THEN /\ errs' = Append(errs, Head(errCh.buf))
            /\ errCh' = [errCh EXCEPT !.buf = Tail(errCh.buf)]
            /\ pc' = pc
       ELSE /\ errCh.closed
            /\ pc' = "aggregate"
            /\ UNCHANGED <<errs, errCh>>
    /\ UNCHANGED <<inv, frames, reported, attr, hookSource, hooks, ctx, callerAborted, nextHook, wg,
                   task, listErr, arrival, handled, ret>>

\* Variant: the last collected error is returned.
LastError(es) == es[Len(es)]

\* return errs[0]
FirstError(es) == es[1]

\* Variant: the loop reports errs[1] on every round instead of errs[i].
BagOfSeqRepeatsFirst(s) ==
    IF s = <<>> THEN EmptyBag ELSE [e \in {Head(s)} |-> Len(s)]

RECURSIVE BagOfSeq(_)
BagOfSeq(s) == IF s = <<>> THEN EmptyBag ELSE SetToBag({Head(s)}) (+) BagOfSeq(Tail(s))

\* the tail of Admit, from len(errs) == 0 on
AdmitReturn ==
    /\ pc = "aggregate"
    /\ IF Len(errs) = 0
       THEN /\ ret' = NilErr
            /\ handled' = handled
       ELSE /\ handled' = handled (+) BagOfSeq(Tail(errs))
            /\ ret' = FirstError(errs)
    /\ pc' = "done"
    /\ UNCHANGED <<inv, frames, reported, attr, hookSource, hooks, ctx, callerAborted, nextHook, wg,
                   errCh, task, listErr, arrival, errs>>

(***************************************************************************)
(* The goroutine of hooks[i]                                               *)
(***************************************************************************)
\* Variant: the collector is a slice the goroutines write without
\* synchronization, each at the length it read before: a write that races
\* with another replaces it.
DeliverUnsynchronized(i, err, calls, response) ==
    /\ task' = [task EXCEPT ![i] = [pc |-> "deferred", err |-> err, calls |-> calls,
                                    response |-> response]]
    /\ IF err = NilErr
       THEN UNCHANGED <<errCh, handled, arrival>>
       ELSE IF err.type = "ErrCallingWebhook"
       THEN /\ handled' = handled (+) SetToBag({err})
            /\ UNCHANGED <<errCh, arrival>>
       ELSE /\ ~errCh.closed
            /\ \E n \in {Len(errCh.buf)} \cup {m \in {Len(errCh.buf) - 1} : Len(errCh.buf) > 0} :
                 errCh' = [errCh EXCEPT !.buf = Append(SubSeq(errCh.buf, 1, n), err)]
            /\ arrival' = Append(arrival, i)
            /\ UNCHANGED handled

\* Variant: a call that failed in transport is issued again.
DeliverRetries(i, err, calls, response) ==
    IF err # NilErr /\ err.type = "ErrCallingWebhook" /\ "Post" \in calls
    THEN /\ task' = [task EXCEPT ![i].pc = "ready"]
         /\ UNCHANGED <<errCh, handled, arrival>>
    ELSE /\ task' = [task EXCEPT ![i] = [pc |-> "deferred", err |-> err, calls |-> calls,
                                         response |-> response]]
         /\ IF err = NilErr
            THEN UNCHANGED <<errCh, handled, arrival>>
            ELSE IF err.type = "ErrCallingWebhook"
            THEN /\ handled' = handled (+) SetToBag({err})
                 /\ UNCHANGED <<errCh, arrival>>
            ELSE /\ Len(errCh.buf) < errCh.cap
                 /\ ~errCh.closed
                 /\ errCh' = [errCh EXCEPT !.buf = Append(errCh.buf, err)]
                 /\ arrival' = Append(arrival, i)
                 /\ UNCHANGED handled

\* Variant: a rejection makes the goroutines that have not yet run callHook
\* skip it.
DeliverCancelSiblings(i, err, calls, response) ==
    LET mine == [pc |-> "deferred", err |-> err, calls |-> calls, response |-> response]
        skip(j) == IF j # i /\ task[j].pc = "ready" /\ err # NilErr
                      /\ err.type # "ErrCallingWebhook"
                   THEN [task[j] EXCEPT !.pc = "deferred"]
                   ELSE task[j]
    IN  /\ task' = [j \in DOMAIN task |-> IF j = i THEN mine ELSE skip(j)]
        /\ IF err = NilErr
           THEN UNCHANGED <<errCh, handled, arrival>>
           ELSE IF err.type = "ErrCallingWebhook"
           THEN /\ handled' = handled (+) SetToBag({err})
                /\ UNCHANGED <<errCh, arrival>>
           ELSE /\ Len(errCh.buf) < errCh.cap
                /\ ~errCh.closed
                /\ errCh' = [errCh EXCEPT !.buf = Append(errCh.buf, err)]
                /\ arrival' = Append(arrival, i)
                /\ UNCHANGED handled

\* What the goroutine does with callHook's error, up to (not including) the
\* deferred wg.Done.
Deliver(i, err, calls, response) ==
    /\ task' = [task EXCEPT ![i] = [pc |-> "deferred", err |-> err, calls |-> calls,
                                    response |-> response]]
    /\ CASE Classify(err) = "return" ->
              UNCHANGED <<errCh, handled, arrival>>
         [] Classify(err) = "HandleError" ->
              /\ handled' = handled (+) SetToBag({err})
              /\ UNCHANGED <<errCh, arrival>>
         [] OTHER ->
              /\ Len(errCh.buf) < errCh.cap
              /\ ~errCh.closed
              /\ errCh' = [errCh EXCEPT !.buf = Append(errCh.buf, err)]
              /\ arrival' = Append(arrival, i)
              /\ UNCHANGED handled

\* callHook up to client.Post()...Do(): rule matching and hookClient.
CallHookStart(i) ==
    /\ i \in Idx
    /\ task[i].pc = "ready"
    /\ IF ~AnyRuleMatches(hooks[i], attr)
       THEN Deliver(i, NilErr, {}, NoResponse)
       ELSE \/ Deliver(i, ErrCallingWebhook(hooks[i].Name, "resolve endpoint"),
                       {"ResolveEndpoint"}, NoResponse)
            \/ Deliver(i, ErrCallingWebhook(hooks[i].Name, "build client"),
                       {"ResolveEndpoint", "RESTClientFor"}, NoResponse)
            \/ /\ task' = [task EXCEPT ![i].pc = "inflight",
                                       ![i].calls = {"ResolveEndpoint", "RESTClientFor", "Post"}]
               /\ UNCHANGED <<errCh, handled, arrival>>
    /\ UNCHANGED <<inv, frames, reported, attr, hookSource, pc, hooks, ctx, callerAborted, nextHook,
                   wg, listErr, errs, ret>>

\* Do().Into(&request) returns, and callHook with it.
CallHookFinish(i) ==
    /\ i \in Idx
    /\ task[i].pc = "inflight"
    /\ \/ \E reason \in DoErrors(ctx) :
            Deliver(i, ErrCallingWebhook(hooks[i].Name, reason), task[i].calls,
                    NoResponse)
       \/ /\ ~ctx.done
          /\ \E request \in Responses(hooks[i]) :
               Deliver(i, DecodeStatus(hooks[i], request), task[i].calls, request)
    /\ UNCHANGED <<inv, frames, reported, attr, hookSource, pc, hooks, ctx, callerAborted, nextHook,
                   wg, listErr, errs, ret>>

\* defer wg.Done()
TaskDone(i) ==
    /\ i \in Idx
    /\ task[i].pc = "deferred"
    /\ task' = [task EXCEPT ![i].pc = "done"]
    /\ wg' = wg - 1
    /\ UNCHANGED <<inv, frames, reported, attr, hookSource, pc, hooks, ctx, callerAborted, nextHook,
                   errCh, listErr, arrival, errs, handled, ret>>

(***************************************************************************)
(* The caller of Admit                                                     *)
(***************************************************************************)
\* The enclosing request is aborted while calls are in flight.  A context
\* derived from the caller's would become done; ctx is what Admit made.
CallerAbort ==
    /\ ~callerAborted
    /\ \E i \in Idx : task[i].pc = "inflight"
    /\ callerAborted' = TRUE
    /\ ctx' = IF ctx.cancelable THEN [ctx EXCEPT !.done = TRUE] ELSE ctx
    /\ UNCHANGED <<inv, frames, reported, attr, hookSource, pc, hooks, nextHook, wg, errCh, task,
                   listErr, arrival, errs, handled, ret>>

Next ==
    \/ AdmitList
    \/ AdmitSpawn
    \/ AdmitWait
    \/ AdmitClose
    \/ AdmitDrain
    \/ AdmitReturn
    \/ \E i \in 1..MaxHooks : CallHookStart(i)
    \/ \E i \in 1..MaxHooks : CallHookFinish(i)
    \/ \E i \in 1..MaxHooks : TaskDone(i)
    \/ CallerAbort

Spec == Init /\ [][Next]_vars

(***************************************************************************)
(* Vocabulary of the properties                                            *)
(***************************************************************************)
\* The goroutine of hooks[i] has callHook's result.
Terminal(i) == task[i].pc \in {"deferred", "done"}

\* Some rule of hooks[i] matches the request.
Applies(i) == \E k \in 1..Len(hooks[i].Rules) : Matches(hooks[i].Rules[k], attr)

NotApplicable(i) == Terminal(i) /\ task[i].err = NilErr /\ task[i].calls = {}

Allowed(i) == Terminal(i) /\ task[i].err = NilErr /\ "Post" \in task[i].calls

CallFailed(i) == Terminal(i) /\ task[i].err.type = "ErrCallingWebhook"

\* Allowed=false with a Result
Denied(i) ==
    /\ Terminal(i)
    /\ task[i].response.received
    /\ ~task[i].response.Allowed
    /\ ~task[i].response.Result.isNil

\* Allowed=false with no Result
AmbiguouslyDenied(i) ==
    /\ Terminal(i)
    /\ task[i].response.received
    /\ ~task[i].response.Allowed
    /\ task[i].response.Result.isNil

Rejected(i) == Denied(i) \/ AmbiguouslyDenied(i)

Returned == pc = "done"

ListedOk == pc # "idle" /\ listErr = NilErr

RECURSIVE SeqToSet(_)
SeqToSet(s) == IF s = <<>> THEN {} ELSE {Head(s)} \cup SeqToSet(Tail(s))

(***************************************************************************)
(* C1  Fail-closed.  When Admit has returned after a successful listing    *)
(* and some webhook answered Allowed=false with a Result, the error Admit  *)
(* returned is not nil, whatever the other webhooks did.                   *)
(***************************************************************************)
C1_FailClosed ==
    (Returned /\ ListedOk /\ \E i \in Idx : Denied(i)) => ret # NilErr

\* Admit returned with one webhook denying, one failing and one allowing.
C1_Witness ==
    /\ Returned
    /\ \E i, j, k \in Idx : Denied(i) /\ CallFailed(j) /\ Allowed(k)
    /\ ret # NilErr

(***************************************************************************)
(* C2  Fail-open.  When Admit has returned after a successful listing and  *)
(* every webhook ended not applicable, allowed or in a call failure, Admit *)
(* returned nil.                                                           *)
(***************************************************************************)
C2_FailOpen ==
    (Returned /\ ListedOk /\ \A i \in Idx : NotApplicable(i) \/ Allowed(i) \/ CallFailed(i))
        => ret = NilErr

\* Admit returned nil although every one of at least two webhooks failed,
\* for different reasons.
C2_Witness ==
    /\ Returned
    /\ Len(hooks) >= 2
    /\ \A i \in Idx : CallFailed(i)
    /\ \E i, j \in Idx : task[i].err.Reason = "resolve endpoint" /\ task[j].err.Reason = "timeout"
    /\ ret = NilErr

(***************************************************************************)
(* C3  Configuration-order tie-break (as the specification states it):     *)
(* when webhooks reject, Admit returns the rejection of the one listed     *)
(* first in the snapshot.                                                  *)
(***************************************************************************)
C3_ConfigurationOrder ==
    (Returned /\ ListedOk /\ \E i \in Idx : Rejected(i))
        => LET first == CHOOSE i \in Idx : Rejected(i) /\ \A j \in Idx : Rejected(j) => i <= j
           IN  ret = task[first].err

(***************************************************************************)
(* C3 as amended: arrival order.  When webhooks reject, Admit returns the  *)
(* rejection that was sent on errCh first, which is the error of one of    *)
(* the rejecting webhooks; every rejecting webhook is in the arrival order *)
(* exactly once.                                                           *)
(***************************************************************************)
C3_ArrivalOrder ==
    (Returned /\ ListedOk) =>
        /\ SeqToSet(arrival) = {i \in Idx : Rejected(i)}
        /\ Len(arrival) = Cardinality({i \in Idx : Rejected(i)})
        /\ (arrival # <<>> => ret = task[arrival[1]].err)

\* Two webhooks rejected and Admit returned the rejection of the one listed later.
C3_Witness ==
    /\ Returned
    /\ \E i, j \in Idx : i < j /\ Denied(i) /\ Denied(j) /\ ret = task[j].err /\ ret # task[i].err

(***************************************************************************)
(* C4  Determinism with one denier.  In a snapshot of three webhooks, all  *)
(* called, where one fails in transport, one allows and one denies with a  *)
(* Result, Admit returns that denial, carrying the denier's Result, and it *)
(* is the only error collected.                                            *)
(***************************************************************************)
C4_SingleDenier ==
    \A a, b, c \in Idx :
        ( /\ Returned
          /\ Len(hooks) = 3
          /\ CallFailed(a) /\ "Post" \in task[a].calls
          /\ Allowed(b)
          /\ Denied(c) )
        => /\ ret = StatusError(ResultOf(hooks[c].Name))
           /\ errs = <<ret>>
           /\ \A e \in BagToSet(handled) : e.type = "ErrCallingWebhook"

\* The denier is listed last and finished first.
C4_Witness ==
    /\ Returned
    /\ Len(hooks) = 3
    /\ CallFailed(1) /\ "Post" \in task[1].calls /\ Allowed(2) /\ Denied(3)
    /\ ret = StatusError(ResultOf(hooks[3].Name))

(***************************************************************************)
(* C5  Listing failure short-circuits.  Once List has returned an error,   *)
(* Admit has returned an error carrying it, and no webhook is evaluated:   *)
(* there is no goroutine, no call, nothing reported and nothing collected. *)
(***************************************************************************)
C5_ListingFailure ==
    (pc # "idle" /\ listErr # NilErr) =>
        /\ Returned
        /\ ret # NilErr
        /\ ret.type = "errorString" /\ ret.err = listErr
        /\ task = <<>>
        /\ hooks = <<>>
        /\ errCh.buf = <<>> /\ arrival = <<>>
        /\ handled = EmptyBag

\* List failed while the hook source held a webhook whose rules match.
C5_Witness ==
    /\ Returned
    /\ listErr = ListError
    /\ \E n \in 1..Len(hookSource) :
         \E k \in 1..Len(hookSource[n].Rules) : Matches(hookSource[n].Rules[k], attr)
    /\ ret = ErrFailedListing(ListError)

(***************************************************************************)
(* C6  A webhook is invoked iff one of its rules matches.  Once the        *)
(* goroutine of a webhook has got past rule matching, it has called        *)
(* ResolveEndpoint iff some rule matches; a webhook with no matching rule  *)
(* made no call, ended with nil, is neither in the collector nor reported, *)
(* and what Admit returns is nil or the error of a matching webhook.       *)
(***************************************************************************)
C6_InvokedIffMatches ==
    /\ \A i \in Idx :
         task[i].pc \in {"inflight", "deferred", "done"} =>
            /\ ("ResolveEndpoint" \in task[i].calls) <=> Applies(i)
            /\ ~Applies(i) =>
                 /\ task[i].calls = {}
                 /\ task[i].err = NilErr
                 /\ ~task[i].response.received
                 /\ \A k \in 1..Len(arrival) : arrival[k] # i
    /\ \A e \in BagToSet(handled) :
         \E i \in Idx : Applies(i) /\ e = task[i].err
    /\ (Returned /\ ListedOk) =>
         /\ ret = NilErr <=> ~\E i \in Idx : Applies(i) /\ Rejected(i)
         /\ ret # NilErr => \E i \in Idx : Applies(i) /\ ret = task[i].err

\* Admit returned with a webhook whose two rules both fail to match beside
\* one that was called and denied.
C6_Witness ==
    /\ Returned
    /\ \E i, j \in Idx :
         /\ ~Applies(i) /\ Len(hooks[i].Rules) = 2 /\ NotApplicable(i)
         /\ Applies(j) /\ Denied(j)

(***************************************************************************)
(* C7  Ambiguous denial.  A response with Allowed=false and no Result      *)
(* makes callHook return an error that is not nil, not an                  *)
(* ErrCallingWebhook and not a StatusError; it is sent on errCh, and Admit *)
(* then returns a non-nil error.                                           *)
(***************************************************************************)
C7_AmbiguousDenial ==
    \A i \in Idx :
        AmbiguouslyDenied(i) =>
            /\ task[i].err # NilErr
            /\ task[i].err.type \notin {"ErrCallingWebhook", "StatusError"}
            /\ task[i].err = ErrDeniedWithoutExplanation(hooks[i].Name)
            /\ \E k \in 1..Len(arrival) : arrival[k] = i
            /\ task[i].err \notin BagToSet(handled) \/ Returned
            /\ Returned => ret # NilErr

\* Admit returned an error although the only rejection is an ambiguous one
\* and the other webhooks allowed or failed.
C7_Witness ==
    /\ Returned
    /\ Len(hooks) = 3
    /\ \E i, j, k \in Idx : AmbiguouslyDenied(i) /\ Allowed(j) /\ CallFailed(k)
    /\ ret.type = "errorString"

(***************************************************************************)
(* C8  Synchronizing join.  From the moment wg.Wait has returned (Admit    *)
(* closes, drains, aggregates, has returned) every goroutine of the        *)
(* invocation is past its wg.Done.                                         *)
(***************************************************************************)
C8_Join ==
    (ListedOk /\ pc \in {"close", "drain", "aggregate", "done"})
        => \A i \in Idx : task[i].pc = "done"

\* wg.Wait has returned after a webhook that denied first and one that was
\* called later than the denial arrived.
C8_Witness ==
    /\ pc = "close"
    /\ \E i, j \in Idx : i # j /\ Denied(i) /\ Allowed(j) /\ arrival = <<i>>

\* Admit is still waiting: one webhook has denied and another call is in flight.
C8_StillWaiting ==
    /\ pc = "wait"
    /\ \E i, j \in Idx : Denied(i) /\ task[i].pc = "done" /\ task[j].pc = "inflight"

(***************************************************************************)
(* C9  Sibling isolation.  A step changes the goroutine of at most one     *)
(* webhook; whatever the other webhooks have done, a goroutine whose hook  *)
(* matches can still issue its call and a call in flight can still end     *)
(* with each of its own responses; no call ends cancelled; and when Admit  *)
(* has returned every webhook of the snapshot has been evaluated: all are  *)
(* past wg.Done and every matching one was called.                         *)
(***************************************************************************)
C9_SiblingIsolation ==
    /\ [](\A i \in Idx :
            /\ (task[i].pc = "ready" /\ Applies(i)) =>
                 ENABLED (CallHookStart(i) /\ task'[i].pc = "inflight")
            /\ task[i].pc = "inflight" =>
                 \A r \in Responses(hooks[i]) :
                    ENABLED (CallHookFinish(i) /\ task'[i].response = r)
            /\ CallFailed(i) => task[i].err.Reason # "context canceled"
            /\ (Returned /\ ListedOk) =>
                 /\ task[i].pc = "done"
                 /\ Applies(i) <=> "ResolveEndpoint" \in task[i].calls)
    /\ [][pc # "idle" =>
            \A i, j \in Idx : (i # j /\ task'[i] # task[i]) => task'[j] = task[j]]_vars

\* A webhook has denied and is done, a sibling's call has failed, and a third
\* webhook's call is still in flight.
C9_Witness ==
    \E i, j, k \in Idx :
        /\ Denied(i) /\ task[i].pc = "done"
        /\ CallFailed(j)
        /\ task[k].pc = "inflight"

(***************************************************************************)
(* C10  External cancellation (as the specification states it): once the   *)
(* caller has aborted the enclosing request, the context of every call     *)
(* still in flight is done.                                                *)
(***************************************************************************)
C10_CallerCancels ==
    callerAborted => \A i \in Idx : task[i].pc = "inflight" => ctx.done

(***************************************************************************)
(* C10 as amended.  The context shared by the calls is made inside Admit   *)
(* and no caller can cancel it: it is never done, also after the caller    *)
(* has aborted the request, and no call ends cancelled; a call in flight   *)
(* ends with a response or with an error of its own (transport, the        *)
(* Timeout, a malformed body).                                             *)
(***************************************************************************)
C10_NoExternalCancellation ==
    /\ ~ctx.done
    /\ \A i \in Idx :
         /\ CallFailed(i) => task[i].err.Reason # "context canceled"
         /\ (callerAborted /\ task[i].pc = "inflight") =>
              ENABLED (CallHookFinish(i) /\ task'[i].response.received)

\* The caller has aborted, one call is still in flight and another ended in
\* its timeout.
C10_Witness ==
    /\ callerAborted
    /\ \E i, j \in Idx :
         /\ task[i].pc = "inflight"
         /\ CallFailed(j) /\ task[j].err.Reason = "timeout"

(***************************************************************************)
(* C11  Single returned error, no merging.  When Admit has returned and k  *)
(* >= 1 webhooks rejected, what it returned is the unchanged error of one  *)
(* of them, which was not given to HandleError; the error of each of the   *)
(* other k-1 was given to HandleError exactly once; and the collected      *)
(* slice holds the k errors, none twice.                                   *)
(***************************************************************************)
C11_OneReturnedRestReported ==
    (Returned /\ ListedOk /\ \E i \in Idx : Rejected(i)) =>
        \E i \in Idx :
            /\ Rejected(i)
            /\ ret = task[i].err
            /\ ret \in {StatusError(ResultOf(hooks[i].Name)),
                        ErrDeniedWithoutExplanation(hooks[i].Name)}
            /\ CopiesIn(ret, handled) = 0
            /\ \A j \in Idx \ {i} : Rejected(j) => CopiesIn(task[j].err, handled) = 1
            /\ Len(errs) = Cardinality({j \in Idx : Rejected(j)})
            /\ SeqToSet(errs) = {task[j].err : j \in {n \in Idx : Rejected(n)}}

\* Three webhooks rejected; one rejection was returned, two were reported.
C11_Witness ==
    /\ Returned
    /\ Len(hooks) = 3
    /\ \A i \in Idx : Rejected(i)
    /\ \E i \in Idx : Denied(i) /\ ret = task[i].err
    /\ BagCardinality(handled) = 2

(***************************************************************************)
(* C12  Propagation policy.  What Admit returns is never an                *)
(* ErrCallingWebhook; after a successful listing a non-nil result is the   *)
(* error of a matching webhook of this invocation that rejected; and the   *)
(* error of a failed call is given to HandleError exactly once and is      *)
(* never in the channel or in the collected slice.                         *)
(***************************************************************************)
C12_Propagation ==
    /\ ret.type # "ErrCallingWebhook"
    /\ (Returned /\ ListedOk /\ ret # NilErr) =>
          \E i \in Idx : Applies(i) /\ Rejected(i) /\ ret = task[i].err
    /\ \A i \in Idx :
          CallFailed(i) =>
             /\ CopiesIn(task[i].err, handled) = 1
             /\ task[i].err \notin SeqToSet(errCh.buf) \cup SeqToSet(errs)
             /\ \A k \in 1..Len(arrival) : arrival[k] # i

\* Admit returned a rejection while the webhook listed first failed to be called.
C12_Witness ==
    /\ Returned
    /\ Len(hooks) >= 2
    /\ CallFailed(1)
    /\ \E i \in Idx : Rejected(i) /\ ret = task[i].err
    /\ CopiesIn(task[1].err, handled) = 1

(***************************************************************************)
(* C13  Collector safety.  After the join, the channel together with what  *)
(* Admit has drained from it holds exactly one entry per rejecting webhook *)
(* and nothing else, whatever the order of the goroutines' sends; while    *)
(* goroutines run it holds exactly the errors of those that have sent.     *)
(***************************************************************************)
C13_CollectorExact ==
    LET collected == errs \o errCh.buf
        senders == {i \in Idx : Rejected(i)}
    IN  ListedOk =>
          /\ Len(collected) = Cardinality(senders)
          /\ \A i \in senders :
                Cardinality({k \in 1..Len(collected) : collected[k] = task[i].err}) = 1
          /\ pc \in {"close", "drain", "aggregate", "done"} =>
                \A i \in Idx : Terminal(i) /\ (i \in senders <=> Classify(task[i].err) = "send")

\* The join is over and every webhook of a full snapshot has an entry.
C13_Witness ==
    /\ pc = "close"
    /\ Len(hooks) = MaxHooks
    /\ \A i \in Idx : Rejected(i)
    /\ Len(errCh.buf) = MaxHooks
    /\ arrival[1] # 1

(***************************************************************************)
(* C14  State machine of one webhook, no retries.  A goroutine that has    *)
(* its outcome keeps it: error, calls made and response never change       *)
(* again and it only moves on to wg.Done; a call is issued only by a       *)
(* goroutine that has not issued one, so at most once per invocation.      *)
(***************************************************************************)
C14_OutcomeIsFinal ==
    [][\A i \in Idx :
          /\ Terminal(i) =>
                /\ task'[i].pc \in {"deferred", "done"}
                /\ task[i].pc = "done" => task'[i].pc = "done"
                /\ task'[i].err = task[i].err
                /\ task'[i].calls = task[i].calls
                /\ task'[i].response = task[i].response
          /\ (task[i].pc # "inflight" /\ task'[i].pc = "inflight") =>
                /\ task[i].pc = "ready"
                /\ "Post" \notin task[i].calls
          /\ task[i].pc = "inflight" => task'[i].pc \in {"inflight", "deferred"}]_vars

\* A call failed in transport and Admit has returned without another call to it.
C14_Witness ==
    /\ Returned
    /\ \E i, j \in Idx :
         /\ CallFailed(i) /\ "Post" \in task[i].calls
         /\ NotApplicable(j)

(***************************************************************************)
(* C15  Failure attribution of the invoker.  When ResolveEndpoint or the   *)
(* construction of the client fails, callHook returns an ErrCallingWebhook *)
(* carrying the name of the webhook and that error, no request is sent     *)
(* and no response is decided on; and when a response was received, also   *)
(* one that rejects, the outcome is not an ErrCallingWebhook.              *)
(***************************************************************************)
C15_FailureAttribution ==
    \A i \in Idx :
        Terminal(i) =>
            /\ (task[i].calls # {} /\ "Post" \notin task[i].calls) =>
                  /\ task[i].err.type = "ErrCallingWebhook"
                  /\ task[i].err.WebhookName = hooks[i].Name
                  /\ task[i].err.Reason =
                        IF "RESTClientFor" \in task[i].calls
                        THEN "build client" ELSE "resolve endpoint"
                  /\ ~task[i].response.received
            /\ (task[i].err # NilErr /\ task[i].err.type = "ErrCallingWebhook") =>
                  /\ task[i].err.WebhookName = hooks[i].Name
                  /\ ~task[i].response.received
            /\ task[i].response.received =>
                  /\ "Post" \in task[i].calls
                  /\ task[i].err = NilErr \/ task[i].err.type # "ErrCallingWebhook"

\* One webhook could not be resolved, the client of another could not be
\* built, and a third was reached and denied.
C15_Witness ==
    \E i, j, k \in Idx :
        /\ Terminal(i) /\ task[i].calls = {"ResolveEndpoint"}
        /\ Terminal(j) /\ task[j].calls = {"ResolveEndpoint", "RESTClientFor"}
        /\ Denied(k)

(***************************************************************************)
(* C18  Parallel fan-out.  The loop of Admit can always start the next     *)
(* goroutine, whatever the goroutines started before are doing; a started  *)
(* goroutine whose hook matches can issue its call, and every call in      *)
(* flight can return, whatever the state of the other calls.               *)
(***************************************************************************)
C18_ParallelFanOut ==
    /\ pc = "spawn" => ENABLED AdmitSpawn
    /\ \A i \in Idx :
         /\ task[i].pc = "ready" =>
              /\ ENABLED CallHookStart(i)
              /\ Applies(i) => ENABLED (CallHookStart(i) /\ task'[i].pc = "inflight")
         /\ task[i].pc = "inflight" => ENABLED CallHookFinish(i)

\* The calls of all webhooks of a full snapshot are in flight at once.
C18_Witness ==
    /\ Len(hooks) = MaxHooks
    /\ \A i \in Idx : task[i].pc = "inflight"

\* The webhook listed last has answered while the calls of those listed
\* before it are in flight.
C18_LastFinishesFirst ==
    /\ Len(hooks) = MaxHooks
    /\ Terminal(Len(hooks)) /\ task[Len(hooks)].response.received
    /\ \A i \in 1..(Len(hooks) - 1) : task[i].pc = "inflight"

(***************************************************************************)
(* Scheduling: as long as Admit or one of its goroutines can take a step   *)
(* (List returns, a goroutine runs, an issued call returns, wg.Wait        *)
(* returns), one of them eventually does.  Nothing is assumed of the       *)
(* caller.                                                                 *)
(***************************************************************************)
Progress ==
    \/ AdmitList
    \/ AdmitSpawn
    \/ AdmitWait
    \/ AdmitClose
    \/ AdmitDrain
    \/ AdmitReturn
    \/ \E i \in 1..MaxHooks : CallHookStart(i)
    \/ \E i \in 1..MaxHooks : CallHookFinish(i)
    \/ \E i \in 1..MaxHooks : TaskDone(i)

FairSpec == Spec /\ WF_vars(Progress)

(***************************************************************************)
(* C19  Termination.  Under fair scheduling Admit eventually returns, and  *)
(* no goroutine can block on its send: the channel always has at least as  *)
(* many free slots as there are goroutines that have not yet delivered     *)
(* their outcome, and it is not closed while one of them has not.          *)
(***************************************************************************)
C19_Termination ==
    /\ <>Returned
    /\ [](ListedOk =>
            LET pending == {i \in Idx : ~Terminal(i)}
            IN  /\ errCh.cap - Len(errCh.buf) >= Cardinality(pending)
                /\ pending # {} => ~errCh.closed)

\* Admit returned after every webhook of a full snapshot rejected.
C19_Witness ==
    /\ Returned
    /\ Len(hooks) = MaxHooks
    /\ \A i \in Idx : Rejected(i)
    /\ Len(errs) = MaxHooks

\* Admit returned with no webhook configured.
C19_NoHooks == Returned /\ ListedOk /\ hooks = <<>> /\ ret = NilErr

(***************************************************************************)
(* C20  Collector bounds and close ordering.  The channel never holds more *)
(* entries than its capacity, the number of webhooks in the snapshot; each *)
(* goroutine has sent at most once; the channel is closed, and Admit       *)
(* reads from it, only when every goroutine is past wg.Done.               *)
(***************************************************************************)
C20_CollectorBounds ==
    ListedOk =>
        /\ errCh.cap = Len(hooks)
        /\ Len(errCh.buf) + Len(errs) <= errCh.cap
        /\ \A i \in Idx : Cardinality({k \in 1..Len(arrival) : arrival[k] = i}) <= 1
        /\ Len(arrival) = Len(errCh.buf) + Len(errs)
        /\ errCh.closed => \A i \in Idx : task[i].pc = "done"
        /\ (pc \in {"drain", "aggregate", "done"} \/ errs # <<>>) =>
              /\ errCh.closed \/ pc = "done"
              /\ \A i \in Idx : task[i].pc = "done"

\* The channel is closed holding as many entries as it has capacity.
C20_Witness ==
    /\ errCh.closed
    /\ pc = "drain"
    /\ Len(hooks) = MaxHooks
    /\ Len(errCh.buf) = errCh.cap

(***************************************************************************)
(* Concurrent invocations.  The API server calls Admit of one dispatcher   *)
(* from many request goroutines.  What follows is the same Admit, run by   *)
(* two invocations at once over one hookSource whose content changes.      *)
(* inv[k] holds the locals of invocation k (attr, hooks, errs, the         *)
(* goroutines it started, its return value), frames[k] the errCh and wg    *)
(* it made; reported is utilruntime.HandleError, which is process-wide.    *)
(***************************************************************************)
Invocations == {"a", "b"}

\* The longest hook list the source holds while invocations run concurrently.
MaxHooksConcurrent == 1

\* The requests the concurrent invocations carry.
ConcurrentRequests == {r \in Requests : r.Operation = "CREATE"}

\* The contents the hook source may have.
SourceContents == {hs \in HookLists : Len(hs) <= MaxHooksConcurrent}

admitVars == <<attr, pc, hooks, ctx, callerAborted, nextHook, wg, errCh, task,
               listErr, arrival, errs, handled, ret>>

NewInvocation(a) ==
    [attr |-> a, pc |-> "idle", hooks |-> <<>>, nextHook |-> 1, task |-> <<>>,
     listErr |-> NilErr, lists |-> 0, errs |-> <<>>, ret |-> NilErr]

NewFrame == [errCh |-> [buf |-> <<>>, cap |-> 0, closed |-> FALSE], wg |-> 0]

ConcurrentInit ==
    /\ inv \in [Invocations -> {NewInvocation(a) : a \in ConcurrentRequests}]
    /\ frames = [k \in Invocations |-> NewFrame]
    /\ reported = EmptyBag
    /\ hookSource \in SourceContents
    /\ attr = CHOOSE a \in Requests : TRUE
    /\ pc = "idle"
    /\ hooks = <<>>
    /\ ctx = ContextTODO
    /\ callerAborted = FALSE
    /\ nextHook = 1
    /\ wg = 0
    /\ errCh = [buf |-> <<>>, cap |-> 0, closed |-> FALSE]
    /\ task = <<>>
    /\ listErr = NilErr
    /\ arrival = <<>>
    /\ errs = <<>>
    /\ handled = EmptyBag
    /\ ret = NilErr

\* Variant: errCh and wg are fields of the dispatcher, one pair for all calls.
FrameOfShared(k) == "a"

\* errCh := make(...) and wg := sync.WaitGroup{} are locals of Admit: each
\* invocation works on the pair it made.
FrameOf(k) == k

\* Variant: the dispatcher keeps the list an earlier invocation got.
SnapshotCached(k) ==
    IF \E j \in Invocations \ {k} : inv[j].pc # "idle" /\ inv[j].listErr = NilErr
    THEN inv[CHOOSE j \in Invocations \ {k} : inv[j].pc # "idle" /\ inv[j].listErr = NilErr].hooks
    ELSE hookSource

\* a.hookSource.List(), when it succeeds: what the source holds now.
Snapshot(k) == hookSource

\* hooks, err := a.hookSource.List() ... wg.Add(len(hooks))
ConcurrentAdmitList(k) ==
    /\ inv[k].pc = "idle"
    /\ \E res \in {[hooks |-> Snapshot(k), err |-> NilErr],
                   [hooks |-> <<>>, err |-> ListError]} :
         IF ListFailed(res.err)
         THEN /\ inv' = [inv EXCEPT ![k].pc = "done",
                                    ![k].ret = ErrFailedListing(res.err),
                                    ![k].listErr = res.err,
                                    ![k].lists = @ + 1]
              /\ UNCHANGED frames
         ELSE /\ inv' = [inv EXCEPT ![k].hooks = res.hooks,
                                    ![k].task = [i \in 1..Len(res.hooks) |-> NewTask],
                                    ![k].nextHook = 1,
                                    ![k].listErr = res.err,
                                    ![k].lists = @ + 1,
                                    ![k].pc = "spawn"]
              /\ frames' = [frames EXCEPT ![FrameOf(k)] =
                              [errCh |-> [buf |-> <<>>, cap |-> ErrChCapacity(res.hooks),
                                          closed |-> FALSE],
                               wg |-> Len(res.hooks)]]
    /\ UNCHANGED <<reported, hookSource, admitVars>>

\* for i := range hooks { go func(hook)(&hooks[i]) }
ConcurrentAdmitSpawn(k) ==
    /\ inv[k].pc = "spawn"
    /\ IF inv[k].nextHook <= Len(inv[k].hooks)
       THEN inv' = [inv EXCEPT ![k].task[inv[k].nextHook].pc = "ready",
                               ![k].nextHook = @ + 1]
       ELSE inv' = [inv EXCEPT ![k].pc = "wait"]
    /\ UNCHANGED <<frames, reported, hookSource, admitVars>>

\* wg.Wait()
ConcurrentAdmitWait(k) ==
    /\ inv[k].pc = "wait"
    /\ WaitReturns(frames[FrameOf(k)].wg)
    /\ inv' = [inv EXCEPT ![k].pc = "close"]
    /\ UNCHANGED <<frames, reported, hookSource, admitVars>>

\* close(errCh)
ConcurrentAdmitClose(k) ==
    /\ inv[k].pc = "close"
    /\ frames' = [frames EXCEPT ![FrameOf(k)].errCh.closed = TRUE]
    /\ inv' = [inv EXCEPT ![k].pc = "drain"]
    /\ UNCHANGED <<reported, hookSource, admitVars>>

\* for e := range errCh { errs = append(errs, e) }
ConcurrentAdmitDrain(k) ==
    /\ inv[k].pc = "drain"
    /\ LET ch == frames[FrameOf(k)].errCh
       IN  IF ch.buf # <<>>
           THEN /\ inv' = [inv EXCEPT ![k].errs = Append(@, Head(ch.buf))]
                /\ frames' = [frames EXCEPT ![FrameOf(k)].errCh.buf = Tail(ch.buf)]
           ELSE /\ ch.closed
                /\ inv' = [inv EXCEPT ![k].pc = "aggregate"]
                /\ UNCHANGED frames
    /\ UNCHANGED <<reported, hookSource, admitVars>>

\* the tail of Admit, from len(errs) == 0 on
ConcurrentAdmitReturn(k) ==
    /\ inv[k].pc = "aggregate"
    /\ IF Len(inv[k].errs) = 0
       THEN /\ inv' = [inv EXCEPT ![k].pc = "done", ![k].ret = NilErr]
            /\ reported' = reported
       ELSE /\ inv' = [inv EXCEPT ![k].pc = "done", ![k].ret = FirstError(inv[k].errs)]
            /\ reported' = reported (+) BagOfSeq(Tail(inv[k].errs))
    /\ UNCHANGED <<frames, hookSource, admitVars>>

\* What a goroutine of invocation k does with callHook's error, up to (not
\* including) the deferred wg.Done.
ConcurrentDeliver(k, i, err, calls, response) ==
    /\ inv' = [inv EXCEPT ![k].task[i] = [pc |-> "deferred", err |-> err, calls |-> calls,
                                          response |-> response]]
    /\ CASE Classify(err) = "return" ->
              UNCHANGED <<frames, reported>>
         [] Classify(err) = "HandleError" ->
              /\ reported' = reported (+) SetToBag({err})
              /\ UNCHANGED frames
         [] OTHER ->
              /\ Len(frames[FrameOf(k)].errCh.buf) < frames[FrameOf(k)].errCh.cap
              /\ ~frames[FrameOf(k)].errCh.closed
              /\ frames' = [frames EXCEPT ![FrameOf(k)].errCh.buf = Append(@, err)]
              /\ UNCHANGED reported

\* callHook up to client.Post()...Do(): rule matching and hookClient.
ConcurrentCallHookStart(k, i) ==
    /\ i \in DOMAIN inv[k].task
    /\ inv[k].task[i].pc = "ready"
    /\ LET hook == inv[k].hooks[i]
       IN  IF ~AnyRuleMatches(hook, inv[k].attr)
           THEN ConcurrentDeliver(k, i, NilErr, {}, NoResponse)
           ELSE \/ ConcurrentDeliver(k, i, ErrCallingWebhook(hook.Name, "resolve endpoint"),
                                     {"ResolveEndpoint"}, NoResponse)
                \/ ConcurrentDeliver(k, i, ErrCallingWebhook(hook.Name, "build client"),
                                     {"ResolveEndpoint", "RESTClientFor"}, NoResponse)
                \/ /\ inv' = [inv EXCEPT ![k].task[i].pc = "inflight",
                                         ![k].task[i].calls =
                                             {"ResolveEndpoint", "RESTClientFor", "Post"}]
                   /\ UNCHANGED <<frames, reported>>
    /\ UNCHANGED <<hookSource, admitVars>>

\* Do().Into(&request) returns, and callHook with it.
ConcurrentCallHookFinish(k, i) ==
    /\ i \in DOMAIN inv[k].task
    /\ inv[k].task[i].pc = "inflight"
    /\ LET hook == inv[k].hooks[i]
       IN  \/ \E reason \in DoErrors(ContextTODO) :
                ConcurrentDeliver(k, i, ErrCallingWebhook(hook.Name, reason),
                                  inv[k].task[i].calls, NoResponse)
           \/ \E request \in Responses(hook) :
                ConcurrentDeliver(k, i, DecodeStatus(hook, request),
                                  inv[k].task[i].calls, request)
    /\ UNCHANGED <<hookSource, admitVars>>

\* defer wg.Done(); a counter that would go negative panics.
ConcurrentTaskDone(k, i) ==
    /\ i \in DOMAIN inv[k].task
    /\ inv[k].task[i].pc = "deferred"
    /\ frames[FrameOf(k)].wg > 0
    /\ inv' = [inv EXCEPT ![k].task[i].pc = "done"]
    /\ frames' = [frames EXCEPT ![FrameOf(k)].wg = @ - 1]
    /\ UNCHANGED <<reported, hookSource, admitVars>>

\* The configuration changes: webhooks are added to or removed from the
\* hook source.
SourceUpdate ==
    /\ \E hs \in SourceContents \ {hookSource} : hookSource' = hs
    /\ UNCHANGED <<inv, frames, reported, admitVars>>

ConcurrentNext ==
    \/ \E k \in Invocations : ConcurrentAdmitList(k)
    \/ \E k \in Invocations : ConcurrentAdmitSpawn(k)
    \/ \E k \in Invocations : ConcurrentAdmitWait(k)
    \/ \E k \in Invocations : ConcurrentAdmitClose(k)
    \/ \E k \in Invocations : ConcurrentAdmitDrain(k)
    \/ \E k \in Invocations : ConcurrentAdmitReturn(k)
    \/ \E k \in Invocations, i \in 1..MaxHooksConcurrent : ConcurrentCallHookStart(k, i)
    \/ \E k \in Invocations, i \in 1..MaxHooksConcurrent : ConcurrentCallHookFinish(k, i)
    \/ \E k \in Invocations, i \in 1..MaxHooksConcurrent : ConcurrentTaskDone(k, i)
    \/ SourceUpdate

ConcurrentSpec == ConcurrentInit /\ [][ConcurrentNext]_vars

\* Goroutine i of invocation k got a rejection from callHook.
RejectedIn(k, i) ==
    /\ inv[k].task[i].pc \in {"deferred", "done"}
    /\ inv[k].task[i].response.received
    /\ ~inv[k].task[i].response.Allowed

\* Invocation k is past a List that succeeded.
ListedOkIn(k) == inv[k].pc # "idle" /\ inv[k].listErr = NilErr

(***************************************************************************)
(* C16  Call-scoped state.  With two invocations running at once, each     *)
(* invocation's collector (the channel it made plus what it has drained)   *)
(* holds exactly the rejections of its own goroutines, its join counter    *)
(* counts exactly its own goroutines that are not past wg.Done, it is past *)
(* wg.Wait only when all of its own goroutines are, it can leave wg.Wait   *)
(* as soon as its own goroutines are done whatever the other invocation is *)
(* doing, and what it returns is nil exactly when none of its own webhooks *)
(* rejected and otherwise the error of one of its own goroutines.          *)
(***************************************************************************)
C16_CallScoped ==
    \A k \in Invocations :
        ListedOkIn(k) =>
            LET own == DOMAIN inv[k].task
                rejections == {i \in own : RejectedIn(k, i)}
                open == {i \in own : inv[k].task[i].pc # "done"}
            IN  /\ own = 1..Len(inv[k].hooks)
                /\ Len(frames[k].errCh.buf) + Len(inv[k].errs) = Cardinality(rejections)
                /\ \A e \in SeqToSet(frames[k].errCh.buf) \cup SeqToSet(inv[k].errs) :
                       \E i \in rejections : e = inv[k].task[i].err
                /\ frames[k].wg = Cardinality(open)
                /\ inv[k].pc \in {"close", "drain", "aggregate", "done"} => open = {}
                /\ (inv[k].pc = "wait" /\ open = {}) => ENABLED ConcurrentAdmitWait(k)
                /\ inv[k].pc = "done" =>
                       /\ inv[k].ret = NilErr <=> rejections = {}
                       /\ inv[k].ret # NilErr =>
                              \E i \in rejections : inv[k].ret = inv[k].task[i].err

\* Both invocations are in progress on different requests: one, whose
\* webhook rejected, has left wg.Wait and collected the rejection; the other
\* still waits for its call in flight.  Then the first has returned the
\* rejection and the second nil.
C16_Witness ==
    /\ inv["a"].attr # inv["b"].attr
    /\ \E k, j \in Invocations :
         /\ k # j
         /\ inv[k].pc = "done" /\ inv[k].ret # NilErr
         /\ \E i \in DOMAIN inv[k].task : RejectedIn(k, i)
         /\ inv[j].pc = "wait"
         /\ \E i \in DOMAIN inv[j].task : inv[j].task[i].pc = "inflight"

\* The error callHook gives for hook h names h.
NamesHook(err, h) ==
    CASE err.type = "ErrCallingWebhook" -> err.WebhookName = h.Name
      [] err.type = "StatusError" -> err.ErrStatus = ResultOf(h.Name)
      [] err.type = "errorString" -> err.name = h.Name
      [] OTHER -> TRUE

(***************************************************************************)
(* C17  Fresh snapshot per call.  Every invocation has called List exactly *)
(* once as soon as it is past its first statement and never before; no     *)
(* goroutine exists before List; the goroutines are those of the hooks of  *)
(* the snapshot, one each, every one started once the loop is over, and an *)
(* outcome names the hook of its position.  The step in which List         *)
(* succeeds sets the snapshot to what the hook source holds at that        *)
(* moment, also when another invocation listed something else before; no   *)
(* later step, a change of the hook source included, changes an            *)
(* invocation's snapshot, its List count or its set of goroutines.         *)
(***************************************************************************)
C17_FreshSnapshot ==
    /\ [](\A k \in Invocations :
            /\ inv[k].lists = (IF inv[k].pc = "idle" THEN 0 ELSE 1)
            /\ inv[k].pc = "idle" => inv[k].task = <<>> /\ inv[k].hooks = <<>>
            /\ DOMAIN inv[k].task = 1..Len(inv[k].hooks)
            /\ inv[k].pc \notin {"idle", "spawn"} =>
                   \A i \in DOMAIN inv[k].task : inv[k].task[i].pc # "unspawned"
            /\ \A i \in DOMAIN inv[k].task :
                   inv[k].task[i].pc \in {"deferred", "done"} =>
                       NamesHook(inv[k].task[i].err, inv[k].hooks[i]))
    /\ [][\A k \in Invocations :
            /\ (inv[k].pc = "idle" /\ inv'[k].pc = "spawn") => inv'[k].hooks = hookSource
            /\ inv[k].pc # "idle" =>
                   /\ inv'[k].hooks = inv[k].hooks
                   /\ inv'[k].lists = inv[k].lists
                   /\ DOMAIN inv'[k].task = DOMAIN inv[k].task]_vars

\* An invocation is waiting for the call of a webhook that has since been
\* removed from the hook source, while the other invocation, which listed
\* after the change, works on the new content.
C17_Witness ==
    \E k, j \in Invocations :
        /\ k # j
        /\ ListedOkIn(k) /\ ListedOkIn(j)
        /\ \E i \in DOMAIN inv[k].task : inv[k].task[i].pc = "inflight"
        /\ inv[k].hooks # hookSource
        /\ inv[j].hooks = hookSource
        /\ inv[j].pc # "done"

=============================================================================
